---- MODULE Spec2Model ----
(***************************************************************************)
(* A model of pic_to_ansi.py: the image -> ANSI / Verilog $display         *)
(* renderer.                                                               *)
(*                                                                         *)
(* Text is modelled as a sequence of characters, each character a         *)
(* one-element token: ordinary characters are one-letter strings, and the  *)
(* three non-ASCII glyphs and the escape character are the tokens          *)
(* "UPPER" (U+2580), "LOWER" (U+2584), "FULL" (U+2588) and "ESC" (0x1b).   *)
(* Numbers with a decimal point (saturation, contrast, cell_aspect) are    *)
(* exact rationals: saturation and contrast in tenths, cell_aspect as a    *)
(* numerator/denominator pair.                                             *)
(***************************************************************************)
EXTENDS Integers, Sequences, FiniteSets, TLC

VARIABLES
  call,           \* harness: the pure function applied and its arguments
  ret,            \* harness: what it returned (NoRet before the call)
  pc,             \* pipeline: position in main / image_to_verilog_display
  entry,          \* "cli" (through main) or "api" (direct call)
  src,            \* the loaded picture: its size <<src_w, src_h>> and content
  width,          \* width argument
  half_block,     \* half_block argument
  cell_aspect,    \* <<num, den>>
  h_px,           \* pixel height handed to the resizer
  img,            \* current pixel buffer [w, h, px]
  denoise,        \* denoise argument
  saturation,     \* saturation argument, in tenths
  contrast,       \* contrast argument, in tenths
  sharpen,        \* sharpen argument
  render,         \* [upper_half, use_csi, char_full] once the encoder read them
  enc_h,          \* the height the cell encoder iterates over
  rows_read,      \* pixel row indexes the encoder passed to getpixel
  ansi_lines,     \* the rendered lines
  out_args,       \* [output_format, output_file, module_name, resize_method]
  final_format,   \* resolve_output_format's result
  file,           \* lines written to output_file (NoFile: never opened)
  stdout,         \* lines printed to standard output
  calls,          \* the stages and library calls made so far, in order
  failed_at,      \* the stage that raised, or "none"
  result,         \* the entry point's return value ("none" while running)
  exit_status     \* the process exit status (-1 while none)

harnessVars == <<call, ret>>
pipeVars == <<pc, entry, src, width, half_block, cell_aspect, h_px, img,
              denoise, saturation, contrast, sharpen, render, enc_h, rows_read,
              ansi_lines, out_args, final_format, file, stdout, calls,
              failed_at, result, exit_status>>
vars == <<call, ret, pc, entry, src, width, half_block, cell_aspect, h_px,
          img, denoise, saturation, contrast, sharpen, render, enc_h,
          rows_read, ansi_lines, out_args, final_format, file, stdout, calls,
          failed_at, result, exit_status>>

----------------------------------------------------------------------------
(* Bounds of the model *)

MaxTextLen == 5      \* longest line given to escape_verilog_string
MaxPathLen == 5      \* longest output path given to resolve_output_format
MaxWidth == 2        \* widest image the pipeline renders
MaxDim == 6          \* largest width / source side / aspect term in the height harness

----------------------------------------------------------------------------
(* Generic helpers *)

Max(a, b) == IF a >= b THEN a ELSE b
Min(a, b) == IF a <= b THEN a ELSE b

RECURSIVE SeqsUpTo(_, _)
SeqsUpTo(S, n) ==
  IF n = 0 THEN {<<>>}
  ELSE LET shorter == SeqsUpTo(S, n - 1)
       IN shorter \cup {Append(s, c) : s \in shorter, c \in S}

(* "".join(ss[lo..hi]) *)
RECURSIVE ConcatRange(_, _, _)
ConcatRange(ss, lo, hi) ==
  IF lo > hi THEN <<>>
  ELSE IF lo = hi THEN ss[lo]
  ELSE LET mid == (lo + hi) \div 2
       IN ConcatRange(ss, lo, mid) \o ConcatRange(ss, mid + 1, hi)

Concat(ss) == ConcatRange(ss, 1, Len(ss))

Digit(d) == <<"0", "1", "2", "3", "4", "5", "6", "7", "8", "9">>[d + 1]

(* str(n) for a non-negative int, as an f-string formats it *)
RECURSIVE Str(_)
Str(n) == IF n < 10 THEN <<Digit(n)>> ELSE Str(n \div 10) \o <<Digit(n % 10)>>

----------------------------------------------------------------------------
(* ansi_fg_bg, ansi_single *)

CSI == <<"ESC", "[">>

Prefix(use_csi) == IF use_csi THEN CSI ELSE <<"[">>

ansi_fg_bg_swapped(top_rgb, bot_rgb, use_upper, use_csi) ==
  LET ch == IF use_upper THEN "UPPER" ELSE "LOWER"
      pre == Prefix(use_csi)
  IN IF use_upper
     THEN pre \o <<"3", "8", ";", "2", ";">> \o Str(top_rgb[1]) \o <<";">>
            \o Str(top_rgb[2]) \o <<";">> \o Str(top_rgb[3]) \o <<"m">>
          \o pre \o <<"4", "8", ";", "2", ";">> \o Str(bot_rgb[1]) \o <<";">>
            \o Str(bot_rgb[2]) \o <<";">> \o Str(bot_rgb[3]) \o <<"m">>
          \o <<ch>> \o pre \o <<"0", "m">>
     ELSE pre \o <<"3", "8", ";", "2", ";">> \o Str(bot_rgb[1]) \o <<";">>
            \o Str(bot_rgb[2]) \o <<";">> \o Str(bot_rgb[3]) \o <<"m">>
          \o pre \o <<"4", "8", ";", "2", ";">> \o Str(top_rgb[1]) \o <<";">>
            \o Str(top_rgb[2]) \o <<";">> \o Str(top_rgb[3]) \o <<"m">>
          \o <<ch>> \o pre \o <<"0", "m">>

ansi_fg_bg(top_rgb, bot_rgb, use_upper, use_csi) ==
  LET rt == top_rgb[1]
      gt == top_rgb[2]
      bt == top_rgb[3]
      rb == bot_rgb[1]
      gb == bot_rgb[2]
      bb == bot_rgb[3]
      ch == IF use_upper THEN "UPPER" ELSE "LOWER"
      pre == Prefix(use_csi)
  IN pre \o <<"3", "8", ";", "2", ";">> \o Str(rt) \o <<";">> \o Str(gt)
       \o <<";">> \o Str(bt) \o <<"m">>
     \o pre \o <<"4", "8", ";", "2", ";">> \o Str(rb) \o <<";">> \o Str(gb)
       \o <<";">> \o Str(bb) \o <<"m">>
     \o <<ch>> \o pre \o <<"0", "m">>

ansi_single(rgb, char, use_csi) ==
  LET r == rgb[1]
      g == rgb[2]
      b == rgb[3]
      pre == Prefix(use_csi)
  IN pre \o <<"3", "8", ";", "2", ";">> \o Str(r) \o <<";">> \o Str(g)
       \o <<";">> \o Str(b) \o <<"m">>
     \o char \o pre \o <<"0", "m">>

----------------------------------------------------------------------------
(* escape_verilog_string *)

(* str.replace(old, new) for a one-character old: every occurrence, left to
   right, in one pass over the text *)
Replace(text, old, new) ==
  Concat([i \in 1..Len(text) |-> IF text[i] = old THEN new ELSE <<text[i]>>])

escape_quote_first(text) ==
  Replace(Replace(text, "\"", <<"\\", "\"">>), "\\", <<"\\", "\\">>)

escape_verilog_string(text) ==
  Replace(Replace(text, "\\", <<"\\", "\\">>), "\"", <<"\\", "\"">>)

----------------------------------------------------------------------------
(* resolve_output_format, default_output_path *)

VERILOG_EXTENSIONS ==
  {<<".", "s", "v">>, <<".", "v">>, <<".", "s", "v", "h">>, <<".", "v", "h">>}

(* an optional path: None, or a (possibly empty) string *)
None == [none |-> TRUE, path |-> <<>>]
Some(p) == [none |-> FALSE, path |-> p]
Truthy(f) == ~f.none /\ f.path # <<>>

(* str.rfind(ch): the last 1-based index of ch, 0 when absent *)
RECURSIVE RFind(_, _)
RFind(p, ch) ==
  IF p = <<>> THEN 0
  ELSE IF p[Len(p)] = ch THEN Len(p)
  ELSE RFind(SubSeq(p, 1, Len(p) - 1), ch)

(* genericpath._splitext's loop over the leading dots of the file name *)
RECURSIVE SkipLeadingDots(_, _, _)
SkipLeadingDots(p, filenameIndex, dotIndex) ==
  IF filenameIndex >= dotIndex THEN <<p, <<>>>>
  ELSE IF p[filenameIndex] # "."
       THEN <<SubSeq(p, 1, dotIndex - 1), SubSeq(p, dotIndex, Len(p))>>
  ELSE SkipLeadingDots(p, filenameIndex + 1, dotIndex)

(* os.path.splitext (posix): <<root, ext>> *)
splitext(p) ==
  LET sepIndex == RFind(p, "/")
      dotIndex == RFind(p, ".")
  IN IF dotIndex > sepIndex
     THEN SkipLeadingDots(p, sepIndex + 1, dotIndex)
     ELSE <<p, <<>>>>

LowerChar(c) ==
  CASE c = "S" -> "s"
    [] c = "V" -> "v"
    [] c = "H" -> "h"
    [] OTHER -> c

lower(s) == [i \in 1..Len(s) |-> LowerChar(s[i])]

resolve_output_format_case_sensitive(output_format, output_file) ==
  IF output_format # "auto" THEN output_format
  ELSE IF Truthy(output_file)
          /\ splitext(output_file.path)[2] \in VERILOG_EXTENSIONS
       THEN "verilog"
  ELSE "ansi"

resolve_output_format(output_format, output_file) ==
  IF output_format # "auto" THEN output_format
  ELSE IF Truthy(output_file)
          /\ lower(splitext(output_file.path)[2]) \in VERILOG_EXTENSIONS
       THEN "verilog"
  ELSE "ansi"

basename(p) == SubSeq(p, RFind(p, "/") + 1, Len(p))

default_output_path(image_path, output_format) ==
  LET root == splitext(basename(image_path))[1]
      stem == IF root # <<>> THEN root ELSE <<"o", "u", "t", "p", "u", "t">>
      ext == IF output_format = "verilog" THEN <<".", "s", "v">>
                                          ELSE <<".", "a", "n", "s">>
  IN stem \o ext

----------------------------------------------------------------------------
(* Target dimensions: image_to_verilog_display, lines 182-191 and 212-215 *)

(* round(num / den) for num >= 0, den > 0: to the nearest integer, a tie to the
   even one, as Python's round does *)
Round(num, den) ==
  LET q == num \div den
      r2 == 2 * (num % den)
  IN IF r2 < den THEN q
     ELSE IF r2 > den THEN q + 1
     ELSE IF q % 2 = 0 THEN q ELSE q + 1

(* height_chars = max(1, int(round(width * (src_h / src_w) / cell_aspect))) *)
HeightChars(w, size, ca) ==
  Max(1, Round(w * size[2] * ca[2], size[1] * ca[1]))

PixelHeight_single(w, size, ca, half) == HeightChars(w, size, ca)

PixelHeight(w, size, ca, half) ==
  LET height_chars == HeightChars(w, size, ca)
  IN IF half
     THEN LET doubled == height_chars * 2
          IN IF doubled % 2 = 1 THEN doubled + 1 ELSE doubled
     ELSE height_chars

(* the encoder's h: img.size's height, less one when half_block and odd *)
EncoderHeight(h, half) == IF half /\ h % 2 = 1 THEN h - 1 ELSE h

----------------------------------------------------------------------------
(* The pipeline's variables before anything ran *)

NoPicture == [size |-> <<0, 0>>, seed |-> 0]
NoImg == [w |-> 0, h |-> 0, px |-> <<>>]
NoRender == [upper_half |-> FALSE, use_csi |-> FALSE, char_full |-> <<>>]
NoOutArgs == [output_format |-> "", output_file |-> None, module_name |-> "",
              resize_method |-> ""]
NoFile == [opened |-> FALSE, lines |-> <<>>]

PipeAt(p) ==
  /\ pc = p
  /\ entry = "none"
  /\ src = NoPicture
  /\ width = 0
  /\ half_block = FALSE
  /\ cell_aspect = <<0, 1>>
  /\ h_px = 0
  /\ img = NoImg
  /\ denoise = 0
  /\ saturation = 10
  /\ contrast = 10
  /\ sharpen = ""
  /\ render = NoRender
  /\ enc_h = 0
  /\ rows_read = {}
  /\ ansi_lines = <<>>
  /\ out_args = NoOutArgs
  /\ final_format = ""
  /\ file = NoFile
  /\ stdout = <<>>
  /\ calls = <<>>
  /\ failed_at = "none"
  /\ result = "none"
  /\ exit_status = -1

----------------------------------------------------------------------------
(* Harness: one pure function applied to one argument list *)

NoRet == [done |-> FALSE, val |-> <<>>]
Returned(v) == [done |-> TRUE, val |-> v]

Channels == {0, 30, 255}
Colours == (Channels \X Channels \X Channels) \cup {<<10, 20, 30>>}
GlyphChars == {"FULL", "#"}
MaxCharLen == 2
CharFulls == SeqsUpTo(GlyphChars, MaxCharLen)

CellCalls ==
  [fn : {"ansi_fg_bg"}, top : Colours, bot : Colours,
   use_upper : BOOLEAN, use_csi : BOOLEAN]
  \cup [fn : {"ansi_single"}, rgb : Colours, char : CharFulls, use_csi : BOOLEAN]

InitCell == call \in CellCalls /\ ret = NoRet /\ PipeAt("idle")

ApplyFgBg ==
  /\ call.fn = "ansi_fg_bg" /\ ~ret.done
  /\ ret' = Returned(ansi_fg_bg(call.top, call.bot, call.use_upper, call.use_csi))
  /\ UNCHANGED <<call, pipeVars>>

ApplySingle ==
  /\ call.fn = "ansi_single" /\ ~ret.done
  /\ ret' = Returned(ansi_single(call.rgb, call.char, call.use_csi))
  /\ UNCHANGED <<call, pipeVars>>

NextCell == ApplyFgBg \/ ApplySingle
SpecCell == InitCell /\ [][NextCell]_vars

TextChars == {"\\", "\"", "a"}
Texts == SeqsUpTo(TextChars, MaxTextLen)

InitEscape ==
  /\ call \in [fn : {"escape_verilog_string"}, text : Texts]
  /\ ret = NoRet /\ PipeAt("idle")

ApplyEscape ==
  /\ call.fn = "escape_verilog_string" /\ ~ret.done
  /\ ret' = Returned(escape_verilog_string(call.text))
  /\ UNCHANGED <<call, pipeVars>>

NextEscape == ApplyEscape
SpecEscape == InitEscape /\ [][NextEscape]_vars

PathChars == {"s", "v", "h", "S", ".", "/"}
Paths == SeqsUpTo(PathChars, MaxPathLen)
OutputFiles == {None} \cup {Some(p) : p \in Paths}
Selectors == {"ansi", "verilog", "auto"}

InitFormat ==
  /\ call \in [fn : {"resolve_output_format"}, output_format : Selectors,
               output_file : OutputFiles]
  /\ ret = NoRet /\ PipeAt("idle")

ApplyFormat ==
  /\ call.fn = "resolve_output_format" /\ ~ret.done
  /\ ret' = Returned(resolve_output_format(call.output_format, call.output_file))
  /\ UNCHANGED <<call, pipeVars>>

NextFormat == ApplyFormat
SpecFormat == InitFormat /\ [][NextFormat]_vars

MaxAspect == 3
AspectRatios == (1..MaxAspect) \X (1..MaxAspect)

InitHeight ==
  /\ call \in [fn : {"dimensions"}, width : 1..MaxDim,
               size : (1..MaxDim) \X (1..MaxDim), cell_aspect : AspectRatios,
               half_block : BOOLEAN]
  /\ ret = NoRet /\ PipeAt("idle")

(* lines 183-191: the height handed to resize_with_optimal_filter *)
HeightDims ==
  /\ call.fn = "dimensions" /\ ~ret.done /\ ret.val = <<>>
  /\ ret' = [done |-> FALSE,
             val |-> <<PixelHeight(call.width, call.size, call.cell_aspect,
                                   call.half_block)>>]
  /\ UNCHANGED <<call, pipeVars>>

(* lines 210-215: the resized image has the size asked for; h as the encoder
   iterates over it *)
HeightEncode ==
  /\ call.fn = "dimensions" /\ ~ret.done /\ Len(ret.val) = 1
  /\ ret' = Returned(<<ret.val[1], EncoderHeight(ret.val[1], call.half_block)>>)
  /\ UNCHANGED <<call, pipeVars>>

NextHeight == HeightDims \/ HeightEncode
SpecHeight == InitHeight /\ [][NextHeight]_vars

----------------------------------------------------------------------------
(* Pixel buffers.  img.px[y + 1][x + 1] is the RGB triple that
   getpixel((x, y)) returns. *)

GetPixel(im, x, y) == im.px[y + 1][x + 1]

MapPixels(im, f(_, _, _)) ==
  [im EXCEPT !.px = [y \in 1..im.h |-> [x \in 1..im.w |->
     <<f(x - 1, y - 1, 1), f(x - 1, y - 1, 2), f(x - 1, y - 1, 3)>>]]]

Clip8(v) == IF v <= 0 THEN 0 ELSE IF v >= 255 THEN 255 ELSE v
Clamp(v, lo, hi) == Max(lo, Min(hi, v))

(* The resizer (PIL's Image.resize, in either colour space) returns a buffer of
   exactly the size asked for; what is in it depends on the source picture and
   on the method.  The buffers sampled are ones whose pixels differ from place
   to place. *)
SamplePixel(seed, x, y) ==
  <<(seed * 97 + 60 * x) % 256, (seed * 31 + 25 * y + 5 * x) % 256,
    (seed * 200 + 7 * x + 3 * y) % 256>>

MethodSeed(method) ==
  CASE method = "linear_lanczos" -> 0
    [] method = "linear_bicubic" -> 1
    [] method = "bicubic" -> 2
    [] OTHER -> 3

resize_with_optimal_filter(picture, w, h, method) ==
  [w |-> w, h |-> h,
   px |-> [y \in 1..h |-> [x \in 1..w |->
             SamplePixel(picture.seed + MethodSeed(method), x - 1, y - 1)]]]

(* resize_with_optimal_filter: which conversions and resizes one call makes *)
ResizeCalls(method) ==
  IF method \in {"linear_lanczos", "linear_bicubic"}
  THEN <<"resize_with_optimal_filter", "srgb_to_linear", "Image.resize",
         "linear_to_srgb">>
  ELSE <<"resize_with_optimal_filter", "Image.resize">>

(* ImageFilter.MedianFilter(size): per channel, the middle value of the
   size x size window around the pixel, the buffer's edge repeated outside it *)
MedianFilter(im, size) ==
  LET r == size \div 2
      W == (-r..r) \X (-r..r)
      val(x, y, c, o) ==
        GetPixel(im, Clamp(x + o[1], 0, im.w - 1), Clamp(y + o[2], 0, im.h - 1))[c]
      med(x, y, c) ==
        CHOOSE v \in {val(x, y, c, o) : o \in W} :
          /\ Cardinality({o \in W : val(x, y, c, o) < v}) <= (size * size) \div 2
          /\ Cardinality({o \in W : val(x, y, c, o) <= v}) > (size * size) \div 2
  IN MapPixels(im, med)

apply_gentle_denoise(pil_img, radius) ==
  IF radius <= 0 THEN pil_img
  ELSE MedianFilter(pil_img, Min(5, radius * 2 + 1))

DenoiseCalls(radius) ==
  <<"apply_gentle_denoise">>
  \o (IF radius <= 0 THEN <<>> ELSE <<"MedianFilter">>)

(* Image.convert("L") of one pixel *)
Luma(rgb) == (rgb[1] * 19595 + rgb[2] * 38470 + rgb[3] * 7471 + 32768) \div 65536

(* Image.blend(degenerate, image, factor) of one channel, factor in tenths *)
Blend(deg, v, factor) == Clip8((10 * deg + factor * (v - deg)) \div 10)

(* ImageEnhance.Color(img).enhance(factor) *)
EnhanceColor(im, factor) ==
  LET f(x, y, c) == Blend(Luma(GetPixel(im, x, y)), GetPixel(im, x, y)[c], factor)
  IN MapPixels(im, f)

RECURSIVE SumSeq(_)
SumSeq(s) == IF s = <<>> THEN 0 ELSE Head(s) + SumSeq(Tail(s))

(* ImageEnhance.Contrast(img).enhance(factor): blend with the mean grey *)
EnhanceContrast(im, factor) ==
  LET n == im.w * im.h
      total == SumSeq([i \in 1..n |->
                 Luma(GetPixel(im, (i - 1) % im.w, (i - 1) \div im.w))])
      mean == (2 * total + n) \div (2 * n)
      f(x, y, c) == Blend(mean, GetPixel(im, x, y)[c], factor)
  IN MapPixels(im, f)

enhance_color_separation(pil_img, sat, con) ==
  LET afterColor == IF sat # 10 THEN EnhanceColor(pil_img, sat) ELSE pil_img
  IN IF con # 10 THEN EnhanceContrast(afterColor, con) ELSE afterColor

EnhanceCalls(sat, con) ==
  <<"enhance_color_separation">>
  \o (IF sat # 10 THEN <<"ImageEnhance.Color">> ELSE <<>>)
  \o (IF con # 10 THEN <<"ImageEnhance.Contrast">> ELSE <<>>)

(* the params table of apply_edge_aware_sharpen; an unknown name gets 'light' *)
SharpenParams(strength) ==
  CASE strength = "medium" -> [radius |-> 10, percent |-> 110, threshold |-> 2]
    [] strength = "strong" -> [radius |-> 12, percent |-> 140, threshold |-> 1]
    [] OTHER -> [radius |-> 7, percent |-> 80, threshold |-> 3]

(* ImageFilter.UnsharpMask: where a channel differs from its blurred value by
   more than the threshold, the difference is added back, scaled by percent.
   The blur stands in for PIL's Gaussian blur: the mean of the 3 x 3 window,
   the buffer's edge repeated outside it. *)
UnsharpMask(im, p) ==
  LET W == <<-1, 0, 1>>
      blur(x, y, c) ==
        SumSeq([i \in 1..9 |->
          GetPixel(im, Clamp(x + W[((i - 1) % 3) + 1], 0, im.w - 1),
                       Clamp(y + W[((i - 1) \div 3) + 1], 0, im.h - 1))[c]]) \div 9
      f(x, y, c) ==
        LET v == GetPixel(im, x, y)[c]
            diff == v - blur(x, y, c)
            mag == IF diff < 0 THEN -diff ELSE diff
            gain == IF diff < 0 THEN -((-diff * p.percent) \div 100)
                                ELSE (diff * p.percent) \div 100
        IN IF mag > p.threshold THEN Clip8(v + gain) ELSE v
  IN MapPixels(im, f)

apply_edge_aware_sharpen(pil_img, strength) ==
  IF strength = "none" THEN pil_img
  ELSE UnsharpMask(pil_img, SharpenParams(strength))

SharpenCalls(strength) ==
  <<"apply_edge_aware_sharpen">>
  \o (IF strength = "none" THEN <<>> ELSE <<"UnsharpMask">>)

(* the guards of lines 197, 201 and 205 *)
DenoiseRequested_always(d) == TRUE
DenoiseRequested(d) == d > 0

EnhanceRequested_always(sat, con) == TRUE
EnhanceRequested(sat, con) == sat # 10 \/ con # 10

SharpenRequested(strength) == strength # "none"

----------------------------------------------------------------------------
(* The cell encoder: image_to_verilog_display, lines 208-231 *)

TopRow(y) == y
BotRow_same(y) == y
BotRow(y) == y + 1

(* for y in range(0, h, 2): one line per pair of rows *)
RECURSIVE HalfBlockLines(_, _, _, _, _)
HalfBlockLines(im, h, y, use_upper, use_csi) ==
  IF y >= h THEN <<>>
  ELSE <<Concat([x \in 1..im.w |->
            ansi_fg_bg(GetPixel(im, x - 1, TopRow(y)),
                       GetPixel(im, x - 1, BotRow(y)), use_upper, use_csi)])>>
       \o HalfBlockLines(im, h, y + 2, use_upper, use_csi)

(* for y in range(h): one line per row *)
RECURSIVE FullBlockLines(_, _, _, _, _)
FullBlockLines(im, h, y, char, use_csi) ==
  IF y >= h THEN <<>>
  ELSE <<Concat([x \in 1..im.w |->
            ansi_single(GetPixel(im, x - 1, y), char, use_csi)])>>
       \o FullBlockLines(im, h, y + 1, char, use_csi)

(* the row indexes given to getpixel *)
EncoderReads(w, h, half) ==
  IF w = 0 THEN {}
  ELSE IF half
       THEN {TopRow(y) : y \in {i \in 0..(h - 1) : i % 2 = 0}}
            \cup {BotRow(y) : y \in {i \in 0..(h - 1) : i % 2 = 0}}
  ELSE 0..(h - 1)

(* img.crop((0, 0, w, h)) *)
Crop(im, h) == [w |-> im.w, h |-> h, px |-> SubSeq(im.px, 1, h)]

OutHeightChars(h, half) == IF half THEN h \div 2 ELSE h

----------------------------------------------------------------------------
(* Output: lines 233-265.  A written line is a tuple whose first element says
   which write produced it. *)

Msg(kind) == <<"msg", kind>>

Display(line, indent) == <<"display", escape_verilog_string(line), indent>>

ImagePath == <<"d", "/", "a", ".", "p">>

HeaderWrites(ff) ==
  << <<"rule">>,
     <<"title", basename(ImagePath)>>,
     <<"source_size", src.size[1], src.size[2]>>,
     <<"output_size", width, OutHeightChars(enc_h, half_block)>>,
     <<"output_format", ff>>,
     <<"options", out_args.resize_method, sharpen>>,
     <<"options2", denoise, saturation, contrast>>,
     <<"rule_blank">> >>

VerilogFileWrites_bare(ff, name) ==
  [i \in 1..Len(ansi_lines) |-> Display(ansi_lines[i], 2)]

VerilogFileWrites(ff, name) ==
  HeaderWrites(ff)
  \o << <<"task_begin", name>> >>
  \o [i \in 1..Len(ansi_lines) |-> Display(ansi_lines[i], 2)]
  \o << <<"end_endtask">> >>

VerilogPrints(ff, name) ==
  [i \in 1..Len(ansi_lines) |-> Display(ansi_lines[i], 0)]

AnsiWrites == [i \in 1..Len(ansi_lines) |-> <<"ansi", ansi_lines[i]>>]

----------------------------------------------------------------------------
(* main and image_to_verilog_display *)

MaxCliWidth == 200

ClampWidth(w) == Max(1, Min(MaxCliWidth, w))

(* command lines given to main: width, --no-half-block, --upper-half,
   --lower-half, --output, --format *)
CliArg(w, nhb, up, low, o, f) ==
  [width |-> w, no_half_block |-> nhb, upper_half |-> up, lower_half |-> low,
   output |-> o, format |-> f]

CliArgs ==
  {CliArg(MaxWidth, FALSE, FALSE, FALSE, None, "auto"),
   CliArg(0, TRUE, FALSE, FALSE, None, "verilog"),
   CliArg(MaxWidth, FALSE, FALSE, TRUE, Some(<<"o", ".", "V">>), "auto"),
   CliArg(MaxWidth, FALSE, TRUE, TRUE, Some(<<"o", ".", "V">>), "ansi"),
   CliArg(1, TRUE, TRUE, FALSE, Some(<<"o", ".", "a">>), "verilog"),
   CliArg(1, FALSE, FALSE, TRUE, None, "ansi")}

Pictures == {[size |-> <<2, 2>>, seed |-> 0], [size |-> <<1, 2>>, seed |-> 7]}
CellAspects == {<<2, 1>>}
Methods == {"linear_bicubic", "lanczos"}
Denoises == {0, 1}
Saturations == {10, 12}
Contrasts == {10, 11}
Sharpens == {"none", "light"}
PipeChars == {<<"FULL">>, <<"\"">>}
ApiOutputs == {None, Some(<<"o", ".", "s", "v">>)}
ModuleNames == {"display_image", "t"}

Init == call = [fn |-> "none"] /\ ret = NoRet /\ PipeAt("start")

(* main, lines 327-354: the arguments main itself computes *)
Main ==
  /\ pc = "start"
  /\ \E args \in CliArgs :
       /\ stdout' = IF args.width <= 0 \/ args.width > MaxCliWidth
                    THEN <<Msg("warning")>> ELSE <<>>
       /\ width' = ClampWidth(args.width)
       /\ half_block' = ~args.no_half_block
       /\ render' = [render EXCEPT
            !.upper_half = (args.upper_half \/ ~args.lower_half)]
       /\ out_args' = [out_args EXCEPT
            !.output_format = args.format,
            !.output_file = IF Truthy(args.output) THEN args.output
                            ELSE Some(default_output_path(ImagePath, args.format))]
  /\ entry' = "cli"
  /\ pc' = "entry"
  /\ UNCHANGED <<harnessVars, src, cell_aspect, h_px, img, denoise,
                 saturation, contrast, sharpen, enc_h, rows_read, ansi_lines,
                 final_format, file, calls, failed_at, result, exit_status>>

(* image_to_verilog_display called directly, with arguments of the caller's *)
Call ==
  /\ pc = "start"
  /\ entry' = "api"
  /\ pc' = "entry"
  /\ UNCHANGED <<harnessVars, src, width, half_block, cell_aspect, h_px, img,
                 denoise, saturation, contrast, sharpen, render, enc_h, rows_read,
                 ansi_lines, out_args, final_format, file, stdout, calls,
                 failed_at, result, exit_status>>

(* lines 174-176 *)
CheckExists ==
  /\ pc = "entry"
  /\ \E exists \in BOOLEAN :
       IF exists
       THEN pc' = "load" /\ UNCHANGED <<stdout, result, failed_at>>
       ELSE /\ stdout' = Append(stdout, Msg("not_found"))
            /\ result' = "False"
            /\ failed_at' = "not_found"
            /\ pc' = "returned"
  /\ UNCHANGED <<harnessVars, entry, src, width, half_block, cell_aspect, h_px,
                 img, denoise, saturation, contrast, sharpen, render, enc_h,
                 rows_read, ansi_lines, out_args, final_format, file, calls,
                 exit_status>>

(* the except clause, lines 269-273: whatever a stage raises before the output
   is written ends the call *)
Raise ==
  /\ pc \in {"load", "resize", "denoise", "enhance", "sharpen", "encode", "output"}
  /\ failed_at' = pc
  /\ stdout' = Append(stdout, Msg("error"))
  /\ result' = "False"
  /\ pc' = "returned"
  /\ UNCHANGED <<harnessVars, entry, src, width, half_block, cell_aspect, h_px,
                 img, denoise, saturation, contrast, sharpen, render, enc_h,
                 rows_read, ansi_lines, out_args, final_format, file, calls,
                 exit_status>>

(* lines 179-180 *)
Load ==
  /\ pc = "load"
  /\ src' \in Pictures
  /\ calls' = Append(calls, "Image.open")
  /\ pc' = "resize"
  /\ UNCHANGED <<harnessVars, entry, width, half_block, cell_aspect, h_px, img,
                 denoise, saturation, contrast, sharpen, render, enc_h, rows_read,
                 ansi_lines, out_args, final_format, file, stdout, failed_at,
                 result, exit_status>>

(* lines 182-194 *)
Resize ==
  /\ pc = "resize"
  /\ \E w \in (IF entry = "cli" THEN {width} ELSE 1..MaxWidth),
        half \in (IF entry = "cli" THEN {half_block} ELSE BOOLEAN),
        ca \in CellAspects, method \in Methods :
       /\ width' = w
       /\ half_block' = half
       /\ cell_aspect' = ca
       /\ h_px' = PixelHeight(w, src.size, ca, half)
       /\ out_args' = [out_args EXCEPT !.resize_method = method]
       /\ img' = resize_with_optimal_filter(src, w,
                    PixelHeight(w, src.size, ca, half), method)
       /\ calls' = calls \o ResizeCalls(method)
  /\ pc' = "denoise"
  /\ UNCHANGED <<harnessVars, entry, src, denoise, saturation, contrast,
                 sharpen, render, enc_h, rows_read, ansi_lines, final_format, file,
                 stdout, failed_at, result, exit_status>>

(* lines 196-198 *)
Denoise ==
  /\ pc = "denoise"
  /\ \E d \in Denoises :
       /\ denoise' = d
       /\ IF DenoiseRequested(d)
          THEN /\ img' = apply_gentle_denoise(img, d)
               /\ calls' = calls \o DenoiseCalls(d)
          ELSE UNCHANGED <<img, calls>>
  /\ pc' = "enhance"
  /\ UNCHANGED <<harnessVars, entry, src, width, half_block, cell_aspect, h_px,
                 saturation, contrast, sharpen, render, enc_h, rows_read,
                 ansi_lines, out_args, final_format, file, stdout, failed_at,
                 result, exit_status>>

(* lines 200-202 *)
Enhance ==
  /\ pc = "enhance"
  /\ \E sat \in Saturations, con \in Contrasts :
       /\ saturation' = sat
       /\ contrast' = con
       /\ IF EnhanceRequested(sat, con)
          THEN /\ img' = enhance_color_separation(img, sat, con)
               /\ calls' = calls \o EnhanceCalls(sat, con)
          ELSE UNCHANGED <<img, calls>>
  /\ pc' = "sharpen"
  /\ UNCHANGED <<harnessVars, entry, src, width, half_block, cell_aspect, h_px,
                 denoise, sharpen, render, enc_h, rows_read, ansi_lines, out_args,
                 final_format, file, stdout, failed_at, result, exit_status>>

(* lines 204-206 *)
Sharpen ==
  /\ pc = "sharpen"
  /\ \E strength \in Sharpens :
       /\ sharpen' = strength
       /\ IF SharpenRequested(strength)
          THEN /\ img' = apply_edge_aware_sharpen(img, strength)
               /\ calls' = calls \o SharpenCalls(strength)
          ELSE UNCHANGED <<img, calls>>
  /\ pc' = "encode"
  /\ UNCHANGED <<harnessVars, entry, src, width, half_block, cell_aspect, h_px,
                 denoise, saturation, contrast, render, enc_h, rows_read,
                 ansi_lines, out_args, final_format, file, stdout, failed_at,
                 result, exit_status>>

(* lines 208-231; getpixel raises IndexError for a row outside the buffer *)
Encode ==
  /\ pc = "encode"
  /\ \E upper \in (IF entry = "cli" \/ ~half_block THEN {render.upper_half}
                                                    ELSE BOOLEAN),
        use_csi \in BOOLEAN,
        char \in (IF half_block THEN {render.char_full} ELSE PipeChars) :
       LET h == EncoderHeight(img.h, half_block)
           im == IF h # img.h THEN Crop(img, h) ELSE img
           reads == EncoderReads(im.w, h, half_block)
       IN /\ render' = [upper_half |-> upper, use_csi |-> use_csi, char_full |-> char]
          /\ img' = im
          /\ enc_h' = h
          /\ rows_read' = reads
          /\ calls' = Append(calls, "encode_cells")
          /\ IF reads \subseteq 0..(im.h - 1)
             THEN /\ ansi_lines' =
                       IF half_block
                       THEN HalfBlockLines(im, h, 0, upper, use_csi)
                       ELSE FullBlockLines(im, h, 0, char, use_csi)
                  /\ pc' = "output"
                  /\ UNCHANGED <<stdout, result, failed_at>>
             ELSE /\ ansi_lines' = <<>>
                  /\ failed_at' = "encode"
                  /\ stdout' = Append(stdout, Msg("error"))
                  /\ result' = "False"
                  /\ pc' = "returned"
  /\ UNCHANGED <<harnessVars, entry, src, width, half_block, cell_aspect, h_px,
                 denoise, saturation, contrast, sharpen, out_args, final_format,
                 file, exit_status>>

(* lines 233-267; a write or print that raises leaves what was written before
   it, and the except clause reports the failure *)
Output ==
  /\ pc = "output"
  /\ \E fmt \in (IF entry = "cli" THEN {out_args.output_format} ELSE Selectors),
        output_file \in (IF entry = "cli" THEN {out_args.output_file}
                                          ELSE ApiOutputs),
        name \in ModuleNames :
       LET ff == resolve_output_format(fmt, output_file)
           toFile == Truthy(output_file)
           named == ff = "verilog" /\ toFile
           writes == IF ff = "verilog"
                     THEN IF toFile THEN VerilogFileWrites(ff, name)
                                    ELSE VerilogPrints(ff, name)
                     ELSE AnsiWrites
       IN \E k \in {0, Min(1, Len(writes)), Len(writes)} :
            /\ named \/ name = "display_image"
            /\ out_args' = [out_args EXCEPT !.output_format = fmt,
                                            !.output_file = output_file,
                                            !.module_name = name]
            /\ final_format' = ff
            /\ calls' = Append(calls, "write_output")
            /\ IF toFile
               THEN /\ file' = [opened |-> TRUE, lines |-> SubSeq(writes, 1, k)]
                    /\ stdout' = Append(stdout, IF k = Len(writes) THEN Msg("wrote")
                                                                   ELSE Msg("error"))
               ELSE /\ file' = file
                    /\ stdout' = stdout \o SubSeq(writes, 1, k)
                                   \o (IF k = Len(writes) THEN <<>>
                                                          ELSE <<Msg("error")>>)
            /\ result' = IF k = Len(writes) THEN "True" ELSE "False"
            /\ failed_at' = IF k = Len(writes) THEN "none" ELSE "output"
  /\ pc' = "returned"
  /\ UNCHANGED <<harnessVars, entry, src, width, half_block, cell_aspect, h_px,
                 img, denoise, saturation, contrast, sharpen, render, enc_h,
                 rows_read, ansi_lines, exit_status>>

ExitStatus_swapped(ok) == IF ok THEN 1 ELSE 0
ExitStatus(ok) == IF ok THEN 0 ELSE 1

(* line 356: sys.exit(0 if ok else 1) *)
Exit ==
  /\ pc = "returned"
  /\ entry = "cli"
  /\ exit_status' = ExitStatus(result = "True")
  /\ pc' = "exited"
  /\ UNCHANGED <<harnessVars, entry, src, width, half_block, cell_aspect, h_px,
                 img, denoise, saturation, contrast, sharpen, render, enc_h,
                 rows_read, ansi_lines, out_args, final_format, file, stdout,
                 calls, failed_at, result>>

Next ==
  \/ Main
  \/ Call
  \/ CheckExists
  \/ Raise
  \/ Load
  \/ Resize
  \/ Denoise
  \/ Enhance
  \/ Sharpen
  \/ Encode
  \/ Output
  \/ Exit

Spec == Init /\ [][Next]_vars

----------------------------------------------------------------------------
(* srgb_to_linear, linear_to_srgb.

   The code computes in float32.  A float is modelled by an interval <<lo, hi>>
   of fixed-point numbers (units of 1/Scale) that contains it: every operation
   takes bounds of the exact result over the interval of its operand, rounded
   outwards, and widens them by what float32 rounding can add (a float32 below
   8 is within half a unit of its exact value, one below 512 within 32 units).
   A comparison that the interval does not decide takes both branches. *)

Scale == 1000 * 1000

(* bounds of a * b / Scale for 0 <= a, b <= 1.13 * Scale, within 32-bit ints *)
MulDown(a, b) == ((a \div 1000) * b) \div 1000 + ((a % 1000) * b) \div Scale
MulUp(a, b) == MulDown(a, b) + 2

RECURSIVE PowDown(_, _)
PowDown(a, n) == IF n = 1 THEN a ELSE MulDown(PowDown(a, n - 1), a)

RECURSIVE PowUp(_, _)
PowUp(a, n) == IF n = 1 THEN a ELSE MulUp(PowUp(a, n - 1), a)

RootTop == Scale + Scale \div 100

(* a lower bound of the n-th root of v: r with r^n <= v, found by bisection *)
RECURSIVE RootDownSearch(_, _, _, _)
RootDownSearch(v, n, lo, hi) ==
  IF hi - lo <= 1 THEN lo
  ELSE LET mid == (lo + hi) \div 2
       IN IF PowUp(mid, n) <= v THEN RootDownSearch(v, n, mid, hi)
                                ELSE RootDownSearch(v, n, lo, mid)

RootDown(v, n) == RootDownSearch(v, n, 0, RootTop)

(* an upper bound of the n-th root of v: r with r^n >= v *)
RECURSIVE RootUpSearch(_, _, _, _)
RootUpSearch(v, n, lo, hi) ==
  IF hi - lo <= 1 THEN hi
  ELSE LET mid == (lo + hi) \div 2
       IN IF PowDown(mid, n) >= v THEN RootUpSearch(v, n, lo, mid)
                                  ELSE RootUpSearch(v, n, mid, hi)

RootUp(v, n) == RootUpSearch(v, n, 0, RootTop)

Hull(a, b) == <<Min(a[1], b[1]), Max(a[2], b[2])>>

(* x ** 2.4 = x^2 * (x^2)^(1/5) *)
Pow_2_4(x) ==
  LET sqLo == PowDown(x[1], 2)
      sqHi == PowUp(x[2], 2)
  IN <<Max(0, MulDown(sqLo, RootDown(sqLo, 5)) - 1),
       MulUp(sqHi, RootUp(sqHi, 5)) + 1>>

(* x ** (1/2.4) = (x^(1/12))^5 *)
Pow_1_2_4(x) ==
  <<Max(0, PowDown(RootDown(x[1], 12), 5) - 1), PowUp(RootUp(x[2], 12), 5) + 1>>

(* srgb_to_linear of one byte *)
srgb_to_linear(u8) ==
  LET c == <<Max(0, (u8 * Scale) \div 255 - 1), (u8 * Scale) \div 255 + 2>>
      low == <<Max(0, (c[1] * 100) \div 1292 - 1), (c[2] * 100) \div 1292 + 2>>
      t == <<((c[1] + 55000) * 1000) \div 1055 - 2,
             ((c[2] + 55000) * 1000) \div 1055 + 3>>
      high == Pow_2_4(t)
  IN IF c[2] < 40450 THEN low
     ELSE IF c[1] > 40450 THEN high
     ELSE Hull(low, high)

(* np.clip(out * 255.0 + half, 0, 255).astype(np.uint8): the bytes it can give,
   as <<least, greatest>> *)
ToByte(out, half) ==
  LET lo == Clamp(255 * out[1] + half - 64, 0, 255 * Scale)
      hi == Clamp(255 * out[2] + half + 64, 0, 255 * Scale)
  IN <<lo \div Scale, hi \div Scale>>

SrgbCurve(f) ==
  LET low == <<(1292 * f[1]) \div 100 - 1, (1292 * f[2]) \div 100 + 2>>
      p == Pow_1_2_4(f)
      high == <<(1055 * p[1]) \div 1000 - 55000 - 2,
                (1055 * p[2]) \div 1000 - 55000 + 3>>
  IN IF 10 * f[2] < 31308 THEN low
     ELSE IF 10 * f[1] > 31308 THEN high
     ELSE Hull(low, high)

linear_to_srgb_truncating(f) == ToByte(SrgbCurve(f), 0)

(* linear_to_srgb of one sample *)
linear_to_srgb(f) == ToByte(SrgbCurve(f), Scale \div 2)

InitGamma ==
  /\ call \in [fn : {"round_trip"}, c : 0..255]
  /\ ret = NoRet /\ PipeAt("idle")

GammaToLinear ==
  /\ call.fn = "round_trip" /\ ~ret.done /\ ret.val = <<>>
  /\ ret' = [done |-> FALSE, val |-> <<srgb_to_linear(call.c)>>]
  /\ UNCHANGED <<call, pipeVars>>

GammaToSrgb ==
  /\ call.fn = "round_trip" /\ ~ret.done /\ Len(ret.val) = 1
  /\ ret' = Returned(<<ret.val[1], linear_to_srgb(ret.val[1])>>)
  /\ UNCHANGED <<call, pipeVars>>

NextGamma == GammaToLinear \/ GammaToSrgb
SpecGamma == InitGamma /\ [][NextGamma]_vars

----------------------------------------------------------------------------
(* Properties *)

Range(s) == {s[i] : i \in 1..Len(s)}

(* a byte in decimal, by its number of digits *)
Dec(n) ==
  IF n < 10 THEN <<Digit(n)>>
  ELSE IF n < 100 THEN <<Digit(n \div 10), Digit(n % 10)>>
  ELSE <<Digit(n \div 100), Digit((n \div 10) % 10), Digit(n % 10)>>

(* P + code + ';2;R;G;Bm' *)
Sgr(P, code, rgb) ==
  P \o code \o <<";", "2", ";">> \o Dec(rgb[1]) \o <<";">> \o Dec(rgb[2])
    \o <<";">> \o Dec(rgb[3]) \o <<"m">>

(* C1: in half-block mode the pixel height handed to the resizer is even, at
   least 2 and equal to 2 * max(1, q) for q the integer nearest to
   width * (src_h / src_w) / cell_aspect, and the height the cell encoder then
   iterates over is even too. *)
C1_HalfBlockHeightEven ==
  (call.fn = "dimensions" /\ call.half_block /\ Len(ret.val) >= 1) =>
    LET h == ret.val[1]
        num == call.width * call.size[2] * call.cell_aspect[2]
        den == call.size[1] * call.cell_aspect[1]
    IN /\ h % 2 = 0
       /\ h >= 2
       /\ \E q \in 0..num :
            /\ 2 * q * den - den <= 2 * num
            /\ 2 * num <= 2 * q * den + den
            /\ h = 2 * Max(1, q)
       /\ ret.done => ret.val[2] % 2 = 0

(* C1 witness: a half-block call whose character height lies exactly between two
   integers (5 * 1 / 2 = 2.5) and that has gone through the encoder's height *)
C1_Witness ==
  /\ call.fn = "dimensions" /\ call.half_block /\ ret.done
  /\ call.width = 5 /\ call.size = <<1, 1>> /\ call.cell_aspect = <<2, 1>>
  /\ ret.val = <<4, 4>>

(* C2: a cell is P + '38;2;R;G;Bm' of the top (or only) colour, then for a
   half-block cell P + '48;2;R;G;Bm' of the bottom colour, then the glyph once
   (the upper- or lower-half block; for a full-block cell the char argument),
   then P + '0m'; P is ESC[ with CSI and '[' without.  Foreground is top and
   background is bottom for both half glyphs, and a full-block cell has no
   background sequence. *)
C2_CellSerialization ==
  (ret.done /\ call.fn \in {"ansi_fg_bg", "ansi_single"}) =>
    LET P == IF call.use_csi THEN <<"ESC", "[">> ELSE <<"[">>
    IN /\ call.fn = "ansi_fg_bg" =>
            ret.val = Sgr(P, <<"3", "8">>, call.top)
                        \o Sgr(P, <<"4", "8">>, call.bot)
                        \o <<IF call.use_upper THEN "UPPER" ELSE "LOWER">>
                        \o P \o <<"0", "m">>
       /\ call.fn = "ansi_single" =>
            ret.val = Sgr(P, <<"3", "8">>, call.rgb) \o call.char \o P \o <<"0", "m">>
       /\ (call.fn = "ansi_single" /\ call.rgb = <<10, 20, 30>>
             /\ call.char = <<"FULL">> /\ ~call.use_csi) =>
            ret.val = <<"[", "3", "8", ";", "2", ";", "1", "0", ";", "2", "0", ";",
                        "3", "0", "m", "FULL", "[", "0", "m">>

(* C2 witness: top (255,0,0), bottom (0,0,255), CSI on, upper-half glyph *)
C2_Witness ==
  /\ ret.done /\ call.fn = "ansi_fg_bg"
  /\ call.top = <<255, 0, 0>> /\ call.bot = <<0, 0, 255>>
  /\ call.use_csi /\ call.use_upper
  /\ ret.val = <<"ESC", "[", "3", "8", ";", "2", ";", "2", "5", "5", ";", "0", ";",
                 "0", "m", "ESC", "[", "4", "8", ";", "2", ";", "0", ";", "0", ";",
                 "2", "5", "5", "m", "UPPER", "ESC", "[", "0", "m">>

EscapedChar(c) ==
  IF c = "\\" THEN <<"\\", "\\">>
  ELSE IF c = "\"" THEN <<"\\", "\"">>
  ELSE <<c>>

(* reading a string literal's body back: a backslash quotes the next character *)
RECURSIVE Unescape(_)
Unescape(t) ==
  IF t = <<>> THEN <<>>
  ELSE IF Head(t) = "\\" /\ Len(t) >= 2
       THEN <<t[2]>> \o Unescape(SubSeq(t, 3, Len(t)))
  ELSE <<Head(t)>> \o Unescape(Tail(t))

(* how many backslashes stand immediately before position i *)
RECURSIVE BackslashesBefore(_, _)
BackslashesBefore(t, i) ==
  IF i > 1 /\ t[i - 1] = "\\" THEN 1 + BackslashesBefore(t, i - 1) ELSE 0

(* C3: escaping turns each backslash into two and each double quote into
   backslash + quote, keeps every other character and the order, and does not
   escape again what it inserted: every quote of the result follows an odd run
   of backslashes, and reading the result back gives the line. *)
C3_EscapeRoundTrip ==
  (ret.done /\ call.fn = "escape_verilog_string") =>
    /\ ret.val = Concat([i \in 1..Len(call.text) |-> EscapedChar(call.text[i])])
    /\ \A i \in 1..Len(ret.val) :
         ret.val[i] = "\"" => BackslashesBefore(ret.val, i) % 2 = 1
    /\ Unescape(ret.val) = call.text

(* C3 witness: a line with a backslash right before a quote *)
C3_Witness ==
  /\ ret.done /\ call.fn = "escape_verilog_string"
  /\ call.text = <<"a", "\\", "\"", "a">>
  /\ ret.val = <<"a", "\\", "\\", "\\", "\"", "a">>

(* the path's extension: from the last dot of the last component, when a
   character other than a dot stands before it in that component *)
HasVerilogExtension(p) ==
  \E i \in 1..Len(p) :
    /\ p[i] = "."
    /\ \A j \in (i + 1)..Len(p) : p[j] \notin {".", "/"}
    /\ \E j \in 1..(i - 1) :
         p[j] # "." /\ \A k \in j..(i - 1) : p[k] # "/"
    /\ [m \in 1..(Len(p) - i + 1) |-> LowerChar(p[i + m - 1])] \in VERILOG_EXTENSIONS

(* C8: 'ansi' and 'verilog' are returned unchanged whatever the path; 'auto'
   gives 'verilog' exactly when a path is given whose extension, letter case
   aside, is .sv, .v, .svh or .vh, and 'ansi' otherwise. *)
C8_FormatResolution ==
  (ret.done /\ call.fn = "resolve_output_format") =>
    /\ ret.val \in {"ansi", "verilog"}
    /\ call.output_format \in {"ansi", "verilog"} => ret.val = call.output_format
    /\ call.output_format = "auto" =>
         (ret.val = "verilog" <=>
            (~call.output_file.none /\ HasVerilogExtension(call.output_file.path)))

(* C8 witness: 'auto' with the path s/.h.Sv, extension in mixed case *)
C8_Witness ==
  /\ ret.done /\ call.fn = "resolve_output_format"
  /\ call.output_format = "auto"
  /\ call.output_file = Some(<<"/", "h", ".", "S", "v">>)
  /\ ret.val = "verilog"

(* the stages of the pipeline, by their place in the fixed order *)
StageRank(c) ==
  CASE c = "resize_with_optimal_filter" -> 1
    [] c = "apply_gentle_denoise" -> 2
    [] c = "enhance_color_separation" -> 3
    [] c = "apply_edge_aware_sharpen" -> 4
    [] c = "encode_cells" -> 5
    [] c = "write_output" -> 6
    [] OTHER -> 0

IsStage(c) == StageRank(c) > 0
StagesRun == SelectSeq(calls, IsStage)

PcRank(p) ==
  CASE p = "resize" -> 1
    [] p = "denoise" -> 2
    [] p = "enhance" -> 3
    [] p = "sharpen" -> 4
    [] p = "encode" -> 5
    [] p = "output" -> 6
    [] OTHER -> 0

(* the place the run has come to: the stage it stands before, the stage that
   raised, or 7 once the output is written *)
Position ==
  IF pc \in {"returned", "exited"}
  THEN IF failed_at = "none" THEN 7 ELSE PcRank(failed_at)
  ELSE PcRank(pc)

Succeeded == pc \in {"returned", "exited"} /\ result = "True"

IsMsg(l) == l[1] = "msg"
IsOutputLine(l) == l[1] # "msg"
Printed == SelectSeq(stdout, IsOutputLine)

(* C5: the stages run in the order resize, denoise, saturation/contrast,
   sharpen, cell encoding, output, none of them twice; resize comes first, and a
   filter stage is among them exactly when the run got past it and it was asked
   for (denoise > 0; saturation or contrast other than 1.0; sharpen other than
   'none'). *)
C5_StageOrder ==
  /\ \A i \in 1..(Len(StagesRun) - 1) :
       StageRank(StagesRun[i]) < StageRank(StagesRun[i + 1])
  /\ ("resize_with_optimal_filter" \in Range(calls)) <=> Position > 1
  /\ ("apply_gentle_denoise" \in Range(calls)) <=> (Position > 2 /\ denoise > 0)
  /\ ("enhance_color_separation" \in Range(calls))
       <=> (Position > 3 /\ (saturation # 10 \/ contrast # 10))
  /\ ("apply_edge_aware_sharpen" \in Range(calls))
       <=> (Position > 4 /\ sharpen # "none")
  /\ Position > 5 => "encode_cells" \in Range(calls)
  /\ Position > 6 => "write_output" \in Range(calls)
  /\ \A c \in Range(calls) : IsStage(c) => StageRank(c) <= Position

(* C5 witness: a run that succeeded with all three filters asked for *)
C5_Witness ==
  /\ Succeeded
  /\ StagesRun = <<"resize_with_optimal_filter", "apply_gentle_denoise",
                   "enhance_color_separation", "apply_edge_aware_sharpen",
                   "encode_cells", "write_output">>

(* C6: with saturation = 1.0 and contrast = 1.0 the stage is skipped: the
   buffer after it is the buffer before it and nothing is called; with one of
   the two at 1.0 that enhancement is not run and the buffer is the other
   enhancement's result alone. *)
C6_NeutralEnhanceSkipped ==
  [][(pc = "enhance" /\ pc' = "sharpen") =>
       /\ (saturation' = 10 /\ contrast' = 10) => (img' = img /\ calls' = calls)
       /\ saturation' = 10 =>
            /\ "ImageEnhance.Color" \notin Range(calls')
            /\ contrast' # 10 => img' = EnhanceContrast(img, contrast')
       /\ contrast' = 10 =>
            /\ "ImageEnhance.Contrast" \notin Range(calls')
            /\ saturation' # 10 => img' = EnhanceColor(img, saturation')]_vars

(* C6 witness: past the stage with both factors 1.0, after a denoise that ran *)
C6_Witness ==
  /\ pc = "sharpen" /\ saturation = 10 /\ contrast = 10
  /\ "MedianFilter" \in Range(calls)
  /\ "enhance_color_separation" \notin Range(calls)

(* C7: a missing input file is reported as failure before anything is loaded;
   a failure while loading, resizing, filtering or encoding is reported as
   failure with no stage after it run; in both cases no output line has been
   written.  Output is written only once every line is encoded.  The exit
   status is 1 exactly when the entry point returned failure, and 0 otherwise. *)
C7_AllOrNothing ==
  /\ failed_at = "not_found" => (calls = <<>> /\ src = NoPicture /\ img = NoImg)
  /\ failed_at # "none" => (result = "False" /\ pc \in {"returned", "exited"})
  /\ failed_at \in {"not_found", "load", "resize", "denoise", "enhance", "sharpen",
                    "encode"} =>
       /\ ~file.opened
       /\ Printed = <<>>
       /\ "write_output" \notin Range(calls)
       /\ \A c \in Range(calls) : IsStage(c) => StageRank(c) <= PcRank(failed_at)
  /\ (file.opened \/ Printed # <<>>) =>
       /\ "encode_cells" \in Range(calls)
       /\ Len(ansi_lines) = OutHeightChars(img.h, half_block)
  /\ pc = "exited" =>
       /\ exit_status \in {0, 1}
       /\ exit_status = 1 <=> result = "False"
  /\ pc # "exited" => exit_status = -1

(* C7 witness: the sharpen stage raised in a run started by main *)
C7_Witness ==
  /\ pc = "exited" /\ failed_at = "sharpen" /\ exit_status = 1
  /\ "enhance_color_separation" \in Range(calls)

(* C9: the encoded buffer has the computed size; in half-block mode its even
   height h gives h/2 lines, line k being the cells of (pixel(x, 2k),
   pixel(x, 2k+1)) for x = 0..w-1 in that order; in full-block mode it gives h
   lines, line k being the cells of pixel(x, k); exactly the rows 0..h-1 are
   read. *)
C9_GridShape ==
  ("encode_cells" \in Range(calls) /\ failed_at # "encode") =>
    /\ img.w = width /\ img.h = h_px /\ enc_h = img.h
    /\ rows_read = 0..(img.h - 1)
    /\ half_block =>
         /\ img.h % 2 = 0
         /\ Len(ansi_lines) = img.h \div 2
         /\ \A k \in 0..((img.h \div 2) - 1) :
              ansi_lines[k + 1] =
                Concat([x \in 1..img.w |->
                  ansi_fg_bg(GetPixel(img, x - 1, 2 * k),
                             GetPixel(img, x - 1, 2 * k + 1),
                             render.upper_half, render.use_csi)])
    /\ ~half_block =>
         /\ Len(ansi_lines) = img.h
         /\ \A k \in 0..(img.h - 1) :
              ansi_lines[k + 1] =
                Concat([x \in 1..img.w |->
                  ansi_single(GetPixel(img, x - 1, k), render.char_full,
                              render.use_csi)])

(* C9 witness: a half-block rendering of two lines of two cells *)
C9_Witness ==
  /\ pc = "output" /\ half_block
  /\ img.w = 2 /\ img.h = 4 /\ Len(ansi_lines) = 2
  /\ GetPixel(img, 0, 2) # GetPixel(img, 0, 3)

(* the header, the task's opening, one display call per line, the closing *)
IsVerilogUnit(lines) ==
  LET n == Len(ansi_lines)
  IN /\ Len(lines) = n + 10
     /\ lines[1] = <<"rule">>
     /\ lines[2][1] = "title"
     /\ lines[3][1] = "source_size" /\ lines[3] = <<"source_size", src.size[1], src.size[2]>>
     /\ lines[4][1] = "output_size"
     /\ lines[4] = <<"output_size", width, n>>
     /\ lines[5][1] = "output_format" /\ lines[5][2] = "verilog"
     /\ lines[6][1] = "options"
     /\ lines[6] = <<"options", out_args.resize_method, sharpen>>
     /\ lines[7][1] = "options2"
     /\ lines[7] = <<"options2", denoise, saturation, contrast>>
     /\ lines[8][1] = "rule_blank"
     /\ lines[9][1] = "task_begin" /\ lines[9][2] = out_args.module_name
     /\ \A i \in 1..n :
          /\ lines[9 + i][1] = "display"
          /\ lines[9 + i][2] =
               Concat([j \in 1..Len(ansi_lines[i]) |-> EscapedChar(ansi_lines[i][j])])
     /\ lines[n + 10][1] = "end_endtask"

(* exactly one display call per line, in order, and nothing else *)
IsDisplayCalls(lines) ==
  /\ Len(lines) = Len(ansi_lines)
  /\ \A i \in 1..Len(lines) :
       /\ lines[i][1] = "display"
       /\ lines[i][2] =
            Concat([j \in 1..Len(ansi_lines[i]) |-> EscapedChar(ansi_lines[i][j])])

(* C4, as claimed: whatever the destination, verilog output is the header, the
   opening of the task, one display call per row in order, and the closing. *)
C4_EveryDestination ==
  (Succeeded /\ final_format = "verilog") =>
    IsVerilogUnit(IF Truthy(out_args.output_file) THEN file.lines ELSE Printed)

(* C4, amended: written to a file, verilog output is the header, the opening
   of the task named by the task-name parameter, one display call per row in
   order, and the closing; printed to standard output it is the display calls
   alone, one per row in order. *)
C4_VerilogOutput ==
  (Succeeded /\ final_format = "verilog") =>
    IF Truthy(out_args.output_file)
    THEN IsVerilogUnit(file.lines) /\ Printed = <<>>
    ELSE IsDisplayCalls(Printed) /\ ~file.opened

(* C4 witness: two rows written to a file as the task t *)
C4_Witness ==
  /\ Succeeded /\ final_format = "verilog"
  /\ Truthy(out_args.output_file)
  /\ out_args.module_name = "t"
  /\ Len(ansi_lines) = 2
  /\ Len(file.lines) = 12

(* C10: for every byte c, every value the conversion to linear light and back
   can give is c: scaled by 255, with 0.5 added, clamped and truncated, the
   round trip lands on c whatever float32 rounding does on the way. *)
C10_GammaRoundTrip ==
  (call.fn = "round_trip" /\ ret.done) => ret.val[2] = <<call.c, call.c>>

(* C10 witness: byte 11, the first one on the power branch of the curve, whose
   linear value lies just above the 0.0031308 breakpoint *)
C10_Witness ==
  /\ call.fn = "round_trip" /\ ret.done /\ call.c = 11
  /\ 10 * ret.val[1][1] > 31308
  /\ ret.val[1][2] - ret.val[1][1] < 20
  /\ ret.val[2] = <<11, 11>>

====
